---- MODULE Spec2Model ----
(***************************************************************************)
(* Model of nmma/em/analysis.py: analysis(args), the light-curve inference *)
(* pipeline.  One action per block of the function, in program order; the  *)
(* variable pc is the position in the function.                            *)
(*                                                                         *)
(* Numbers.  Every float of the program is a pair <<n, d>>: the rational   *)
(* n/d in lowest terms when d > 0, NaN when <<0, 0>>, +inf when <<1, 0>>,   *)
(* -inf when <<-1, 0>>.  Arithmetic is exact (rounding is not modelled).    *)
(* Epochs and window bounds are whole numbers of time units.               *)
(*                                                                         *)
(* Optional values.  None (and the empty string, equally falsy) is the     *)
(* empty sequence <<>>; a present value v is <<v>> where a scalar is meant. *)
(* A comma separated string is the sequence of its comma separated tokens. *)
(***************************************************************************)
EXTENDS Integers, Sequences, FiniteSets, TLC

\* ------------------------------------------------------------------ bounds
MaxFilters == 2
MaxBudget  == 2
MaxPoints  == 2
MaxRows    == 2
MaxTmax    == 7

\* ---------------------------------------------------------- program constants
MaxOutdirLen == 64

\* ----------------------------------------------------------------- numbers
Abs(x) == IF x < 0 THEN -x ELSE x

RECURSIVE GCD(_, _)
GCD(a, b) == IF b = 0 THEN a ELSE GCD(b, a % b)

NaN    == <<0, 0>>
Inf    == <<1, 0>>

Sign(x) == IF x > 0 THEN 1 ELSE IF x < 0 THEN -1 ELSE 0

\* the float n/d (d # 0), in lowest terms with a positive denominator
Rat(n, d) ==
    LET g == GCD(Abs(n), Abs(d))
        s == IF d < 0 THEN -1 ELSE 1
    IN  <<(s * n) \div g, (s * d) \div g>>

Num(n) == <<n, 1>>

isnan(v)    == v = NaN
isfinite(v) == v[2] # 0

Neg(a) == <<-a[1], a[2]>>

Add(a, b) ==
    IF isnan(a) \/ isnan(b) THEN NaN
    ELSE IF ~isfinite(a) THEN (IF ~isfinite(b) /\ a # b THEN NaN ELSE a)
    ELSE IF ~isfinite(b) THEN b
    ELSE Rat(a[1] * b[2] + b[1] * a[2], a[2] * b[2])

Sub(a, b) == Add(a, Neg(b))

Mul(a, b) ==
    IF isnan(a) \/ isnan(b) THEN NaN
    ELSE IF ~isfinite(a) \/ ~isfinite(b)
         THEN (IF a[1] = 0 \/ b[1] = 0 THEN NaN ELSE <<Sign(a[1]) * Sign(b[1]), 0>>)
    ELSE Rat(a[1] * b[1], a[2] * b[2])

\* numpy float division: x/0 is +-inf, 0/0 and inf/inf are nan, x/inf is 0
NpDiv(a, b) ==
    IF isnan(a) \/ isnan(b) THEN NaN
    ELSE IF ~isfinite(a) THEN (IF ~isfinite(b) THEN NaN
                               ELSE <<Sign(a[1]) * (IF b[1] < 0 THEN -1 ELSE 1), 0>>)
    ELSE IF ~isfinite(b) THEN Num(0)
    ELSE IF b[1] = 0 THEN (IF a[1] = 0 THEN NaN ELSE <<Sign(a[1]), 0>>)
    ELSE Rat(a[1] * b[2], a[2] * b[1])

\* --------------------------------------------------------------- sequences
Range(s) == {s[i] : i \in 1..Len(s)}

SeqsUpTo(S, n) == UNION {[1..k -> S] : k \in 0..n}

NonEmptySeqs(S, n) == UNION {[1..k -> S] : k \in 1..n}

\* the duplicate-free sequences that list exactly the elements of S
Orderings(S) == {s \in [1..Cardinality(S) -> S] : Range(s) = S}

RECURSIVE SelectIdx(_, _)
\* the subsequence of s at the increasing index sequence idx (numpy s[idx])
SelectIdx(s, idx) ==
    IF idx = <<>> THEN <<>> ELSE <<s[Head(idx)]>> \o SelectIdx(s, Tail(idx))

RECURSIVE Where(_, _)
\* np.where(cond)[0]: the indices i >= from of the boolean sequence cond that
\* are TRUE, increasing
Where(cond, from) ==
    IF from > Len(cond) THEN <<>>
    ELSE (IF cond[from] THEN <<from>> ELSE <<>>) \o Where(cond, from + 1)

Zip(a, b) ==
    [i \in 1..(IF Len(a) < Len(b) THEN Len(a) ELSE Len(b)) |-> <<a[i], b[i]>>]

RECURSIVE Repeat(_, _)
\* the Python list product  lst * n
Repeat(lst, n) == IF n <= 0 THEN <<>> ELSE lst \o Repeat(lst, n - 1)

\* dict(pairs): a later pair replaces an earlier one with the same key
Dict(pairs) ==
    [k \in {pairs[i][1] : i \in 1..Len(pairs)} |->
        LET last == CHOOSE i \in 1..Len(pairs) :
                        /\ pairs[i][1] = k
                        /\ \A j \in (i + 1)..Len(pairs) : pairs[j][1] # k
        IN  pairs[last][2]]

\* --------------------------------------------------- the light-curve dataset
\* data is an insertion-ordered dict: a sequence of entries [filt, samples];
\* samples is the (n, 3) array of the filter, one row [jd, mag, mag_unc] a point.
Keys(d) == [i \in 1..Len(d) |-> d[i].filt]

HasKey(d, f) == \E i \in 1..Len(d) : d[i].filt = f

Get(d, f) == d[CHOOSE i \in 1..Len(d) : d[i].filt = f].samples

SetItem(d, f, v) ==
    IF HasKey(d, f)
    THEN [i \in 1..Len(d) |-> IF d[i].filt = f THEN [filt |-> f, samples |-> v] ELSE d[i]]
    ELSE Append(d, [filt |-> f, samples |-> v])

DelItem(d, f) == SelectSeq(d, LAMBDA e : e.filt # f)

FiniteUnc(p) == isfinite(p.mag_unc)
FiniteMag(p) == isfinite(p.mag)

\* --------------------------------------------------------------- the state
VARIABLES
    pc,                 \* position in analysis()
    args,               \* the parsed command line
    env,                \* what the collaborators hold: the event file, the
                        \* posterior the sampler produces, the MPI rank
    sample_times, data, trigger_time,
    filters, filters_to_analyze, error_budget,
    sampler_kwargs, nlive, run_sampler_call,
    posterior_file,     \* <label>_posterior_samples.dat on disk
    bestfit_idx, bestfit_params, mag,
    chi2, dof, chi2_per_dof_dict, chi2_per_dof,
    bestfit_file,       \* <label>_bestfit_params.json on disk
    printed,            \* the messages printed so far
    error,              \* the exception that ended the run, "" if none
    exit_status         \* the status passed to exit(), <<>> if exit was not called

vars == <<pc, args, env, sample_times, data, trigger_time, filters,
          filters_to_analyze, error_budget, sampler_kwargs, nlive,
          run_sampler_call, posterior_file, bestfit_idx, bestfit_params, mag,
          chi2, dof, chi2_per_dof_dict, chi2_per_dof, bestfit_file, printed,
          error, exit_status>>

\* a local variable that has not been assigned
\* (value is <<>> for None and <<n>> for the number n)
Unbound == [bound |-> FALSE, value |-> <<>>]
Bound(v) == [bound |-> TRUE, value |-> v]

\* the exception is recorded and the run goes on to the sampler
RaiseAndGoOn(exc) == /\ pc' = "reactive"
                     /\ error' = exc

\* an exception leaves analysis(): nothing else changes
Raise(exc) == /\ pc' = "raised"
              /\ error' = exc

\* exit(status): the process ends; exit() with no argument ends it with status 0
Exit(status) == /\ pc' = "exited"
                /\ exit_status' = <<status>>

\* ------------------------------------------------ lines 401-406: outdir check
CheckOutdir ==
    /\ pc = "start"
    /\ IF args.sampler = "pymultinest" /\ args.outdir_len > MaxOutdirLen
       THEN /\ printed' = printed \cup {"WARNING: output directory name is too long"}
            /\ Exit(0)
            /\ UNCHANGED error
       ELSE /\ pc' = "sample_times"
            /\ UNCHANGED <<printed, exit_status, error>>
    /\ UNCHANGED <<args, env, sample_times, data, trigger_time, filters,
                   filters_to_analyze, error_budget, sampler_kwargs, nlive,
                   run_sampler_call, posterior_file, bestfit_idx, bestfit_params,
                   mag, chi2, dof, chi2_per_dof_dict, chi2_per_dof, bestfit_file>>

\* ------------------------------------------------ lines 421-431: sample times
RECURSIVE arange(_, _, _)
\* np.arange(start, stop, step): start, start+step, ... while below stop
arange(start, stop, step) ==
    IF start >= stop THEN <<>> ELSE <<start>> \o arange(start + step, stop, step)

\* int(n / d) for d > 0: the quotient truncated towards zero
int(n, d) == IF n >= 0 THEN n \div d ELSE -((-n) \div d)

RECURSIVE Pow(_, _)
Pow(q, m) == IF m = 0 THEN 1 ELSE q * Pow(q, m - 1)

\* whether x >= 1 has a whole m-th root, and that root (the log-spaced grids of
\* the model are those whose points are whole numbers)
HasRoot(x, m) == \E q \in 1..x : Pow(q, m) = x
Root(x, m) == CHOOSE q \in 1..x : Pow(q, m) = x

\* np.logspace(np.log10(start), np.log10(stop), num) for 0 < start: num points,
\* the first is start, the last is stop, with a constant ratio between neighbours
logspace(start, stop, num) ==
    IF num <= 0 THEN <<>>
    ELSE IF num = 1 THEN <<start>>
    ELSE [k \in 1..num |->
            IF k = num THEN stop
            ELSE IF k = 1 THEN start
            ELSE start * Pow(Root(stop \div start, num - 1), k - 1)]

\* args.n_tstep is 0 when no step count is given (the test of line 423 is falsy)
BuildSampleTimes ==
    /\ pc = "sample_times"
    /\ sample_times' =
         IF args.log_space_time
         THEN LET n_step == IF args.n_tstep # 0 THEN args.n_tstep
                            ELSE int(args.tmax - args.tmin, args.dt)
              IN  logspace(args.tmin, args.tmax + args.dt, n_step)
         ELSE arange(args.tmin, args.tmax + args.dt, args.dt)
    /\ pc' = "filters"
    /\ UNCHANGED <<args, env, data, trigger_time, filters, filters_to_analyze,
                   error_budget, sampler_kwargs, nlive, run_sampler_call,
                   posterior_file, bestfit_idx, bestfit_params, mag, chi2, dof,
                   chi2_per_dof_dict, chi2_per_dof, bestfit_file, printed, error, exit_status>>

\* ------------------------------------------------ lines 434-440: filter names
\* str.replace(" ", "") on one token of the comma separated string
RemoveWhitespace(tok) == IF tok = " r" THEN "r" ELSE tok

ParseFilters ==
    /\ pc = "filters"
    /\ filters' = IF args.filters # <<>>
                  THEN [i \in 1..Len(args.filters) |-> RemoveWhitespace(args.filters[i])]
                  ELSE <<>>
    /\ pc' = "load"
    /\ UNCHANGED <<args, env, sample_times, data, trigger_time,
                   filters_to_analyze, error_budget, sampler_kwargs, nlive,
                   run_sampler_call, posterior_file, bestfit_idx, bestfit_params,
                   mag, chi2, dof, chi2_per_dof_dict, chi2_per_dof, bestfit_file, printed,
                   error, exit_status>>

\* ------------------------------------------------ lines 443-588: the dataset
Min(S) == CHOOSE x \in S : \A y \in S : x <= y

\* all epochs of the dataset
Epochs(d) ==
    UNION {{d[i].samples[j].jd : j \in 1..Len(d[i].samples)} : i \in 1..Len(d)}

LoadData ==
    /\ pc = "load"
    /\ IF args.injection # "none"
       THEN \* injection mode: the row must hold geocent_time or geocent_time_x
            IF args.injection \in {"geocent_time", "geocent_time_x"}
            THEN /\ trigger_time' = Num(env.tc_mjd)
                 /\ data' = env.event_file
                 /\ pc' = "remove"
                 /\ UNCHANGED <<printed, error, exit_status>>
            ELSE /\ printed' = printed \cup {"Need either geocent_time or geocent_time_x"}
                 /\ Exit(1)
                 /\ UNCHANGED <<data, trigger_time, error>>
       ELSE \* observation mode: loadEvent, or the JSON fallback
            IF args.trigger_time = <<>>
            THEN IF \E i \in 1..Len(env.event_file) : env.event_file[i].samples = <<>>
                 THEN \* np.min of a zero-size array
                      /\ data' = env.event_file
                      /\ Raise("ValueError")
                      /\ UNCHANGED <<trigger_time, printed, exit_status>>
                 ELSE /\ data' = env.event_file
                      /\ trigger_time' = IF env.event_file = <<>> THEN Inf
                                         ELSE Num(Min(Epochs(env.event_file)))
                      /\ printed' = printed \cup {"trigger_time is not provided"}
                      /\ pc' = "remove"
                      /\ UNCHANGED <<error, exit_status>>
            ELSE /\ data' = env.event_file
                 /\ trigger_time' = Num(args.trigger_time[1])
                 /\ pc' = "remove"
                 /\ UNCHANGED <<printed, error, exit_status>>
    /\ UNCHANGED <<args, env, sample_times, filters, filters_to_analyze,
                   error_budget, sampler_kwargs, nlive, run_sampler_call,
                   posterior_file, bestfit_idx, bestfit_params, mag, chi2, dof,
                   chi2_per_dof_dict, chi2_per_dof, bestfit_file>>

\* ------------------------------------------- lines 590-596: non-detections
\* the loop without the deletion of a filter that is left empty
RemoveLoopKeepEmpty(d, filters_to_check) ==
    [i \in 1..Len(d) |->
        [filt |-> d[i].filt,
         samples |-> SelectIdx(d[i].samples,
                               Where([n \in 1..Len(d[i].samples) |->
                                         FiniteUnc(d[i].samples[n])], 1))]]

RECURSIVE RemoveLoop(_, _)
\* the loop over filters_to_check, d the dict as left by the filters before
RemoveLoop(d, filters_to_check) ==
    IF filters_to_check = <<>> THEN d
    ELSE LET filt == Head(filters_to_check)
             idx  == Where([n \in 1..Len(Get(d, filt)) |-> FiniteUnc(Get(d, filt)[n])], 1)
             d1   == SetItem(d, filt, SelectIdx(Get(d, filt), idx))
             d2   == IF Len(idx) = 0 THEN DelItem(d1, filt) ELSE d1
         IN  RemoveLoop(d2, Tail(filters_to_check))

RemoveNondetections ==
    /\ pc = "remove"
    /\ data' = IF args.remove_nondetections THEN RemoveLoop(data, Keys(data)) ELSE data
    /\ pc' = "check"
    /\ UNCHANGED <<args, env, sample_times, trigger_time, filters,
                   filters_to_analyze, error_budget, sampler_kwargs, nlive,
                   run_sampler_call, posterior_file, bestfit_idx, bestfit_params,
                   mag, chi2, dof, chi2_per_dof_dict, chi2_per_dof, bestfit_file, printed,
                   error, exit_status>>

\* ------------------------------------------- lines 598-611: any detection?
\* the loop with the magnitude test left out
DetectionLoopUncOnly(d, i, detection, notallnan) ==
    <<\E k \in 1..Len(d) : Len(Where([n \in 1..Len(d[k].samples) |-> FiniteUnc(d[k].samples[n])], 1)) > 0, TRUE>>

RECURSIVE DetectionLoop(_, _, _, _)
\* the loop over data.keys() from entry i on: <<detection, notallnan>> at its end
DetectionLoop(d, i, detection, notallnan) ==
    IF i > Len(d) THEN <<detection, notallnan>>
    ELSE LET det1 == detection \/ Len(Where([n \in 1..Len(d[i].samples) |-> FiniteUnc(d[i].samples[n])], 1)) > 0
             nan1 == notallnan \/ Len(Where([n \in 1..Len(d[i].samples) |-> FiniteMag(d[i].samples[n])], 1)) > 0
         IN  IF det1 /\ nan1 THEN <<det1, nan1>>            \* break
             ELSE DetectionLoop(d, i + 1, det1, nan1)

CheckDetections ==
    /\ pc = "check"
    /\ LET r == DetectionLoop(data, 1, FALSE, FALSE)
       IN  IF (~r[1]) \/ (~r[2])
           THEN Raise("ValueError: Need at least one detection to do fitting.")
           ELSE /\ pc' = "resolve"
                /\ UNCHANGED error
    /\ UNCHANGED <<args, env, sample_times, data, trigger_time, filters,
                   filters_to_analyze, error_budget, sampler_kwargs, nlive,
                   run_sampler_call, posterior_file, bestfit_idx, bestfit_params,
                   mag, chi2, dof, chi2_per_dof_dict, chi2_per_dof, bestfit_file, printed,
                   exit_status>>

\* ------------------------------- lines 613-647: filters and error budget
\* {v: i for i, v in enumerate(lst)}: the last position of each value
ValuesToIndices(lst) ==
    [v \in Range(lst) |->
        CHOOSE i \in 1..Len(lst) : lst[i] = v /\ \A j \in (i + 1)..Len(lst) : lst[j] # v]

\* sorted(list(S), key=lambda v: key[v]) for a key without ties
SortedBy(S, key) ==
    CHOOSE s \in Orderings(S) : \A i, j \in 1..Len(s) : i < j => key[s[i]] < key[s[j]]

\* lines 629-632
FiltersToAnalyze(lst, d) ==
    SortedBy(Range(lst) \cap Range(Keys(d)), ValuesToIndices(lst))

\* the budget list zipped as it is, without the list product
BroadcastNoProduct(fta, budget) == Dict(Zip(fta, budget))

\* lines 635-637 and 645-647
Broadcast(fta, budget) == Dict(Zip(fta, Repeat(budget, Len(fta))))

\* lines 634-641: <<TRUE, the budget>>, or <<FALSE, the list>> when line 641 raises
BudgetWithFilters(fta, budget) ==
    IF Len(budget) = 1 THEN <<TRUE, Broadcast(fta, budget)>>
    ELSE IF Len(args.filters) = Len(budget)
         THEN <<TRUE, Dict(Zip(args.filters, budget))>>
         ELSE <<FALSE, budget>>

ResolveFilters ==
    /\ pc = "resolve"
    /\ IF args.filters # <<>>
       THEN \E lst \in (IF args.photometry_augmentation_filters # <<>>
                        THEN \* list(set(...)): the set in any order
                             Orderings(Range(args.filters
                                             \o args.photometry_augmentation_filters))
                        ELSE {args.filters}) :
                LET fta == FiltersToAnalyze(lst, data)
                    res == BudgetWithFilters(fta, args.error_budget)
                IN  /\ filters' = lst
                    /\ filters_to_analyze' = fta
                    /\ IF res[1]
                       THEN /\ error_budget' = res[2]
                            /\ pc' = "likelihood"
                            /\ UNCHANGED error
                       ELSE /\ Raise("ValueError: error_budget must be the same length as filters")
                            /\ error_budget' = res[2]
       ELSE /\ filters_to_analyze' = Keys(data)
            /\ error_budget' = Broadcast(Keys(data), args.error_budget)
            /\ pc' = "likelihood"
            /\ UNCHANGED <<filters, error>>
    /\ UNCHANGED <<args, env, sample_times, data, trigger_time, sampler_kwargs,
                   nlive, run_sampler_call, posterior_file, bestfit_idx,
                   bestfit_params, mag, chi2, dof, chi2_per_dof_dict,
                   chi2_per_dof, bestfit_file, printed, exit_status>>

\* ------------------------------ lines 649-683: model, prior, likelihood
\* literal_eval of a string: <<TRUE, value>>, or <<FALSE, ...>> when it raises.
\* A string option is [wellformed, value]: whether it is a Python literal, and
\* the literal it denotes.
literal_eval(str) == <<str.wellformed, str.value>>

SetupLikelihood ==
    /\ pc = "likelihood"
    /\ printed' = printed \cup {"Running with filters"}
    /\ IF args.detection_limit # <<>> /\ ~literal_eval(args.detection_limit[1])[1]
       THEN /\ Raise("ValueError: malformed node or string")
            /\ UNCHANGED <<args, sampler_kwargs>>
       ELSE /\ args' = IF args.detection_limit # <<>>
                       THEN [args EXCEPT !.detection_limit =
                                <<[wellformed |-> TRUE,
                                   value |-> literal_eval(args.detection_limit[1])[2]]>>]
                       ELSE args
            /\ IF ~literal_eval(args.sampler_kwargs)[1]
               THEN /\ Raise("ValueError: malformed node or string")
                    /\ UNCHANGED sampler_kwargs
               ELSE /\ sampler_kwargs' = literal_eval(args.sampler_kwargs)[2]
                    /\ pc' = "reactive"
                    /\ UNCHANGED error
    /\ UNCHANGED <<env, sample_times, data, trigger_time, filters,
                   filters_to_analyze, error_budget, nlive, run_sampler_call,
                   posterior_file, bestfit_idx, bestfit_params, mag, chi2, dof,
                   chi2_per_dof_dict, chi2_per_dof, bestfit_file, exit_status>>

\* ------------------------------------- lines 685-693: reactive sampling
ReactiveSampling ==
    /\ pc = "reactive"
    /\ IF args.reactive_sampling
       THEN IF args.sampler # "ultranest"
            THEN /\ printed' = printed
                        \cup {"Reactive sampling is only available in ultranest"}
                 /\ UNCHANGED nlive
            ELSE /\ printed' = printed
                        \cup {"Running with reactive-sampling in ultranest"}
                 /\ nlive' = Bound(<<>>)
       ELSE /\ nlive' = Bound(<<args.nlive>>)
            /\ UNCHANGED printed
    /\ pc' = "skip"
    /\ UNCHANGED <<args, env, sample_times, data, trigger_time, filters,
                   filters_to_analyze, error_budget, sampler_kwargs,
                   run_sampler_call, posterior_file, bestfit_idx, bestfit_params,
                   mag, chi2, dof, chi2_per_dof_dict, chi2_per_dof, bestfit_file,
                   error, exit_status>>

\* ---------------------------------------- lines 695-702: skip sampling
\* d[k] = v on a dict held as a function
DictSet(d, k, v) == [x \in DOMAIN d \cup {k} |-> IF x = k THEN v ELSE d[x]]

SkipSampling ==
    /\ pc = "skip"
    /\ IF args.skip_sampling
       THEN /\ printed' = printed \cup {"Sampling for 1 iteration"}
            /\ sampler_kwargs' =
                 IF args.sampler = "pymultinest" THEN DictSet(sampler_kwargs, "max_iter", 1)
                 ELSE IF args.sampler = "ultranest" THEN DictSet(sampler_kwargs, "niter", 1)
                 ELSE IF args.sampler = "dynesty" THEN DictSet(sampler_kwargs, "maxiter", 1)
                 ELSE sampler_kwargs
       ELSE UNCHANGED <<printed, sampler_kwargs>>
    /\ pc' = "run"
    /\ UNCHANGED <<args, env, sample_times, data, trigger_time, filters,
                   filters_to_analyze, error_budget, nlive, run_sampler_call,
                   posterior_file, bestfit_idx, bestfit_params, mag, chi2, dof,
                   chi2_per_dof_dict, chi2_per_dof, bestfit_file, error,
                   exit_status>>

\* ---------------------------------------- lines 704-716: bilby.run_sampler
RunSampler ==
    /\ pc = "run"
    /\ IF ~nlive.bound
       THEN \* the argument nlive=nlive reads a local that was never assigned
            /\ Raise("UnboundLocalError: nlive")
            /\ UNCHANGED run_sampler_call
       ELSE /\ run_sampler_call' = <<[sampler |-> args.sampler,
                                      nlive   |-> nlive.value,
                                      kwargs  |-> sampler_kwargs]>>
            /\ pc' = "mpi"
            /\ UNCHANGED error
    /\ UNCHANGED <<args, env, sample_times, data, trigger_time, filters,
                   filters_to_analyze, error_budget, sampler_kwargs, nlive,
                   posterior_file, bestfit_idx, bestfit_params, mag, chi2, dof,
                   chi2_per_dof_dict, chi2_per_dof, bestfit_file, printed,
                   exit_status>>

\* ---------------------------------------- lines 718-729: MPI rank
\* the rank is not looked at: every process goes on
CheckMpiRankIgnored ==
    /\ pc = "mpi"
    /\ pc' = "save"
    /\ UNCHANGED <<args, env, sample_times, data, trigger_time, filters,
                   filters_to_analyze, error_budget, sampler_kwargs, nlive,
                   run_sampler_call, posterior_file, bestfit_idx, bestfit_params,
                   mag, chi2, dof, chi2_per_dof_dict, chi2_per_dof, bestfit_file,
                   printed, error, exit_status>>

\* env.mpi_rank is <<>> when mpi4py cannot be imported, else <<rank>>
CheckMpiRank ==
    /\ pc = "mpi"
    /\ pc' = IF env.mpi_rank # <<>> /\ env.mpi_rank[1] # 0 THEN "returned" ELSE "save"
    /\ UNCHANGED <<args, env, sample_times, data, trigger_time, filters,
                   filters_to_analyze, error_budget, sampler_kwargs, nlive,
                   run_sampler_call, posterior_file, bestfit_idx, bestfit_params,
                   mag, chi2, dof, chi2_per_dof_dict, chi2_per_dof, bestfit_file,
                   printed, error, exit_status>>

\* ---------------------------------------- lines 731-769: persist, corner plot
SavePosterior ==
    /\ pc = "save"
    /\ posterior_file' = <<env.posterior>>
    /\ pc' = "bestfit"
    /\ UNCHANGED <<args, env, sample_times, data, trigger_time, filters,
                   filters_to_analyze, error_budget, sampler_kwargs, nlive,
                   run_sampler_call, bestfit_idx, bestfit_params, mag, chi2, dof,
                   chi2_per_dof_dict, chi2_per_dof, bestfit_file, printed, error,
                   exit_status>>

\* ---------------------------------------- lines 771-786: best-fit row
RECURSIVE argmaxLast(_, _, _)
\* the scan that keeps the last maximum
argmaxLast(a, i, b) ==
    IF i > Len(a) THEN b - 1
    ELSE argmaxLast(a, i + 1, IF a[i] >= a[b] THEN i ELSE b)

RECURSIVE argmax(_, _, _)
\* np.argmax of the sequence a: the 0-based index of the first maximum. The scan
\* is at 1-based position i with the best position so far b.
argmax(a, i, b) ==
    IF i > Len(a) THEN b - 1
    ELSE argmax(a, i + 1, IF a[i] > a[b] THEN i ELSE b)

\* DataFrame.to_dict(orient="list"): column name -> list of the column's values
to_dict_list(table) ==
    [c \in table.columns |-> [i \in 1..Len(table.rows) |-> table.rows[i][c]]]

FetchBestfit ==
    /\ pc = "bestfit"
    /\ IF ~(args.bestfit \/ args.plot)
       THEN /\ pc' = "write"
            /\ UNCHANGED <<bestfit_idx, bestfit_params, error>>
       ELSE IF posterior_file = <<>>
       THEN /\ Raise("FileNotFoundError")
            /\ UNCHANGED <<bestfit_idx, bestfit_params>>
       ELSE LET posterior_samples == posterior_file[1]
                ll  == to_dict_list(posterior_samples)["log_likelihood"]
            IN  IF ll = <<>>
                THEN \* argmax of an empty sequence
                     /\ Raise("ValueError: attempt to get argmax of an empty sequence")
                     /\ UNCHANGED <<bestfit_idx, bestfit_params>>
                ELSE LET idx   == argmax(ll, 1, 1)
                         lists == to_dict_list(posterior_samples)
                     IN  /\ bestfit_idx' = <<idx>>
                         /\ bestfit_params' = [key \in DOMAIN lists |-> lists[key][idx + 1]]
                         /\ pc' = "lightcurve"
                         /\ UNCHANGED error
    /\ UNCHANGED <<args, env, sample_times, data, trigger_time, filters,
                   filters_to_analyze, error_budget, sampler_kwargs, nlive,
                   run_sampler_call, posterior_file, mag, chi2, dof,
                   chi2_per_dof_dict, chi2_per_dof, bestfit_file, printed,
                   exit_status>>

\* ---------------------------------------- lines 791-802: best-fit light curve
RECURSIVE log10(_)
\* log10 of a power of ten (the distances of the model are powers of ten)
log10(x) == IF x <= 1 THEN 0 ELSE 1 + log10(x \div 10)

\* the forward model's absolute magnitude at time t: the same straight line in
\* every filter, env.lc_model its value at 0 and its slope
ModelMag(t) == Num(env.lc_model.offset + env.lc_model.slope * t)

\* 5.0 * np.log10(luminosity_distance * 1e6 / 10.0), the distance in Mpc
DistanceModulus(d) == Num(5 * log10(d * 100000))

GenerateLightcurve ==
    /\ pc = "lightcurve"
    /\ LET d == bestfit_params["luminosity_distance"]
           curve == [k \in 1..Len(sample_times) |->
                        IF d > 0 THEN Add(ModelMag(sample_times[k]), DistanceModulus(d))
                        ELSE ModelMag(sample_times[k])]
       IN  mag' = [curves |-> [filt \in Range(filters_to_analyze) |-> curve],
                   bestfit_sample_times |->
                       IF "timeshift" \in DOMAIN bestfit_params
                       THEN [k \in 1..Len(sample_times) |->
                                sample_times[k] + bestfit_params["timeshift"]]
                       ELSE sample_times]
    /\ pc' = "chi2"
    /\ UNCHANGED <<args, env, sample_times, data, trigger_time, filters,
                   filters_to_analyze, error_budget, sampler_kwargs, nlive,
                   run_sampler_call, posterior_file, bestfit_idx, bestfit_params,
                   chi2, dof, chi2_per_dof_dict, chi2_per_dof, bestfit_file,
                   printed, error, exit_status>>

\* ---------------------------------------- lines 807-845: chi-square
\* utils.dataProcess: a copy of the data in which every filter of `filts` has
\* its epochs counted from the trigger time and keeps the points of the window
InWindow(p) == args.tmin <= p.jd /\ p.jd <= args.tmax

dataProcess(raw_data, filts, triggerTime) ==
    [i \in 1..Len(raw_data) |->
        IF raw_data[i].filt \in Range(filts)
        THEN [filt |-> raw_data[i].filt,
              samples |->
                 LET shifted == [j \in 1..Len(raw_data[i].samples) |->
                                   [raw_data[i].samples[j] EXCEPT
                                       !.jd = @ - triggerTime[1]]]
                 IN  SelectIdx(shifted, Where([n \in 1..Len(shifted) |-> InWindow(shifted[n])], 1))]
        ELSE raw_data[i]]

\* interp1d(x, y)(t), linear, bounds_error: <<TRUE, value>> or <<FALSE, NaN>>
interp1d(x, y, t) ==
    IF t < x[1] \/ t > x[Len(x)] THEN <<FALSE, NaN>>
    ELSE LET k == CHOOSE k \in 1..(Len(x) - 1) : x[k] <= t /\ t <= x[k + 1]
         IN  <<TRUE, Add(y[k], Mul(Sub(y[k + 1], y[k]),
                                   Rat(t - x[k], x[k + 1] - x[k])))>>

RECURSIVE Sum(_)
\* np.sum of a sequence of floats
Sum(a) == IF a = <<>> THEN Num(0) ELSE Add(Head(a), Sum(Tail(a)))

Square(a) == Mul(a, a)

\* every index, detection or not
AllIdx(samples) == [j \in 1..Len(samples) |-> j]

\* line 825: the indices of the detections
FiniteIdx(samples) == Where([n \in 1..Len(samples) |-> FiniteUnc(samples[n])], 1)

\* lines 832-839 for the detections t_det, the curve (x, y) and the error err:
\* <<TRUE, chi2_per_filt>>, or <<FALSE, ...>> when interp raises
Chi2PerFilt(det, x, y, err) ==
    LET terms == [j \in 1..Len(det) |->
                    NpDiv(Square(Sub(det[j].mag, interp1d(x, y, det[j].jd)[2])),
                          Add(Square(det[j].mag_unc), Square(Num(err))))]
    IN  <<\A j \in 1..Len(det) : interp1d(x, y, det[j].jd)[1], Sum(terms)>>

\* the total overwritten instead of accumulated
AssignChi2(total, chi2_per_filt) == chi2_per_filt

\* line 841
AddChi2(total, chi2_per_filt) == Add(total, chi2_per_filt)

\* the epochs left as they are
ShiftEpochsOmitted(samples) == samples

\* lines 819-823: the deep copy of the filter's processed points, its epochs
\* moved by the timeshift of the best fit when there is one
ShiftEpochs(samples) ==
    IF "timeshift" \in DOMAIN bestfit_params
    THEN [j \in 1..Len(samples) |->
            [samples[j] EXCEPT !.jd = @ + bestfit_params["timeshift"]]]
    ELSE samples

RECURSIVE Chi2Loop(_, _, _)
\* the loop of lines 813-843 over the filters `todo`, acc the locals
\* [chi2, dof, dict, error] as left by the filters before
Chi2Loop(todo, processed_data, acc) ==
    IF todo = <<>> \/ acc.error # "" THEN acc
    ELSE LET filt    == Head(todo)
             samples == Get(processed_data, filt)
             shifted == ShiftEpochs(samples)
             finite_idx == FiniteIdx(shifted)
             det     == SelectIdx(shifted, finite_idx)
         IN  IF Len(finite_idx) = 0 THEN Chi2Loop(Tail(todo), processed_data, acc)
             ELSE IF "em_syserr" \notin DOMAIN bestfit_params
                     /\ filt \notin DOMAIN error_budget
             THEN [acc EXCEPT !.error = "KeyError: error_budget"]
             ELSE LET err == IF "em_syserr" \in DOMAIN bestfit_params
                             THEN bestfit_params["em_syserr"]
                             ELSE error_budget[filt]
                      r   == Chi2PerFilt(det, mag.bestfit_sample_times,
                                         mag.curves[filt], err)
                  IN  IF ~r[1] THEN [acc EXCEPT !.error = "ValueError: interpolation range"]
                      ELSE Chi2Loop(Tail(todo), processed_data,
                              [chi2  |-> AddChi2(acc.chi2, r[2]),
                               dof   |-> acc.dof + Len(finite_idx),
                               dict  |-> DictSet(acc.dict, filt,
                                                 NpDiv(r[2], Num(Len(finite_idx)))),
                               error |-> ""])

\* the division done by numpy, which returns nan for 0/0
Chi2PerDofNumpy(c, n) == <<TRUE, NpDiv(c, Num(n))>>

\* line 845: chi2 / dof. Both are Python floats until a filter has contributed
\* (dof > 0), and a Python float division by zero raises.
Chi2PerDof(c, n) == IF n = 0 THEN <<FALSE, NaN>> ELSE <<TRUE, NpDiv(c, Num(n))>>

CalculateChi2 ==
    /\ pc = "chi2"
    /\ LET processed_data == dataProcess(data, filters_to_analyze, trigger_time)
           acc == Chi2Loop(filters_to_analyze, processed_data,
                           [chi2 |-> Num(0), dof |-> 0, dict |-> <<>>, error |-> ""])
           q   == Chi2PerDof(acc.chi2, acc.dof)
       IN  /\ chi2' = acc.chi2
           /\ dof' = acc.dof
           /\ chi2_per_dof_dict' = acc.dict
           /\ sample_times' = IF filters_to_analyze # <<>>
                              THEN mag.bestfit_sample_times ELSE sample_times
           /\ IF acc.error # "" THEN Raise(acc.error) /\ UNCHANGED chi2_per_dof
              ELSE IF ~q[1] THEN Raise("ZeroDivisionError") /\ UNCHANGED chi2_per_dof
              ELSE /\ chi2_per_dof' = <<q[2]>>
                   /\ pc' = "write"
                   /\ UNCHANGED error
    /\ UNCHANGED <<args, env, data, trigger_time, filters, filters_to_analyze,
                   error_budget, sampler_kwargs, nlive, run_sampler_call,
                   posterior_file, bestfit_idx, bestfit_params, mag,
                   bestfit_file, printed, exit_status>>

\* ---------------------------------------- lines 847-862: best-fit report
WriteBestfit ==
    /\ pc = "write"
    /\ IF args.bestfit
       THEN /\ bestfit_file' = <<[params |-> bestfit_params,
                                  index |-> bestfit_idx[1],
                                  chi2_per_dof |-> chi2_per_dof[1],
                                  chi2_per_dof_per_filt |-> chi2_per_dof_dict]>>
            /\ printed' = printed \cup {"Saved bestfit parameters and magnitudes"}
       ELSE UNCHANGED <<bestfit_file, printed>>
    /\ pc' = "plot"
    /\ UNCHANGED <<args, env, sample_times, data, trigger_time, filters,
                   filters_to_analyze, error_budget, sampler_kwargs, nlive,
                   run_sampler_call, posterior_file, bestfit_idx, bestfit_params,
                   mag, chi2, dof, chi2_per_dof, chi2_per_dof_dict, error,
                   exit_status>>

\* ---------------------------------------- lines 864-1001: light-curve plot
NotNanMag(p) == ~isnan(p.mag)

\* lines 881-891: the filters that have a point with a magnitude
RECURSIVE FiltersPlot(_)
FiltersPlot(todo) ==
    IF todo = <<>> THEN <<>>
    ELSE LET filt == Head(todo)
         IN  (IF HasKey(data, filt) /\ Len(Where([n \in 1..Len(Get(data, filt)) |-> NotNanMag(Get(data, filt)[n])], 1)) > 0
              THEN <<filt>> ELSE <<>>) \o FiltersPlot(Tail(todo))

\* lines 900-952 for each plotted filter: t is a view of column 0 of data[filt],
\* so  t -= trigger_time  (line 909) subtracts in place; the error band then
\* reads error_budget[filt]. The result is <<data, exception or "">>.
RECURSIVE PlotLoop(_, _)
PlotLoop(d, todo) ==
    IF todo = <<>> THEN <<d, "">>
    ELSE LET filt == Head(todo)
             d1   == SetItem(d, filt,
                             [j \in 1..Len(Get(d, filt)) |->
                                 [Get(d, filt)[j] EXCEPT !.jd = @ - trigger_time[1]]])
         IN  IF filt \notin DOMAIN error_budget THEN <<d1, "KeyError: error_budget">>
             ELSE PlotLoop(d1, Tail(todo))

PlotLightcurves ==
    /\ pc = "plot"
    /\ IF args.plot
       THEN LET filters_plot == FiltersPlot(filters_to_analyze)
                r == PlotLoop(data, filters_plot)
            IN  /\ data' = r[1]
                /\ IF r[2] # "" THEN Raise(r[2])
                   ELSE IF filters_plot = <<>>
                   THEN \* line 997: ax1 is assigned in the loop only
                        Raise("UnboundLocalError: ax1")
                   ELSE pc' = "done" /\ UNCHANGED error
       ELSE /\ pc' = "done"
            /\ UNCHANGED <<data, error>>
    /\ UNCHANGED <<args, env, sample_times, trigger_time, filters,
                   filters_to_analyze, error_budget, sampler_kwargs, nlive,
                   run_sampler_call, posterior_file, bestfit_idx, bestfit_params,
                   mag, chi2, dof, chi2_per_dof, chi2_per_dof_dict, bestfit_file,
                   printed, exit_status>>

\* ------------------------------------------------------------ the program
Next ==
    \/ CheckOutdir
    \/ BuildSampleTimes
    \/ ParseFilters
    \/ LoadData
    \/ RemoveNondetections
    \/ CheckDetections
    \/ ResolveFilters
    \/ SetupLikelihood
    \/ ReactiveSampling
    \/ SkipSampling
    \/ RunSampler
    \/ CheckMpiRank
    \/ SavePosterior
    \/ FetchBestfit
    \/ GenerateLightcurve
    \/ CalculateChi2
    \/ WriteBestfit
    \/ PlotLightcurves

\* the state at the entry of analysis() for one of the given inputs
InitFrom(Inputs) ==
    /\ \E in \in Inputs : args = in.args /\ env = in.env
    /\ pc = "start"
    /\ sample_times = <<>>
    /\ data = <<>>
    /\ trigger_time = <<>>
    /\ filters = <<>>
    /\ filters_to_analyze = <<>>
    /\ error_budget = <<>>
    /\ sampler_kwargs = <<>>
    /\ nlive = Unbound
    /\ run_sampler_call = <<>>
    /\ posterior_file = <<>>
    /\ bestfit_idx = <<>>
    /\ bestfit_params = <<>>
    /\ mag = <<>>
    /\ chi2 = <<>>
    /\ dof = 0
    /\ chi2_per_dof_dict = <<>>
    /\ chi2_per_dof = <<>>
    /\ bestfit_file = <<>>
    /\ printed = {}
    /\ error = ""
    /\ exit_status = <<>>

\* ------------------------------------------------------------- the inputs
Point(jd, m, unc) == [jd |-> jd, mag |-> m, mag_unc |-> unc]

\* the datasets whose filters are `names`, in that order, each with one of `SampleSeqs`
Datasets(names, SampleSeqs) ==
    {[i \in 1..Len(names) |-> [filt |-> names[i], samples |-> f[i]]] :
        f \in [1..Len(names) -> SampleSeqs]}

\* a posterior table with the given columns
Table(columns, rows) == [columns |-> columns, rows |-> rows]

BaseColumns == {"log_likelihood", "luminosity_distance"}

\* the command line defaults of get_parser(), with a window of three time units
\* sampled every two
DefaultArgs ==
    [sampler |-> "pymultinest", outdir_len |-> MaxOutdirLen, injection |-> "none",
     trigger_time |-> <<0>>, remove_nondetections |-> FALSE,
     filters |-> <<>>, photometry_augmentation_filters |-> <<>>,
     error_budget |-> <<1>>, tmin |-> 0, tmax |-> 3, dt |-> 2,
     log_space_time |-> FALSE, n_tstep |-> 0,
     detection_limit |-> <<>>,
     sampler_kwargs |-> [wellformed |-> TRUE, value |-> <<>>],
     reactive_sampling |-> FALSE, nlive |-> 2048, skip_sampling |-> FALSE,
     bestfit |-> FALSE, plot |-> FALSE]

DefaultEnv ==
    [event_file |-> <<[filt |-> "g", samples |-> <<Point(1, Num(20), Num(1))>>]>>,
     tc_mjd |-> 0,
     posterior |-> Table(BaseColumns,
                         <<[log_likelihood |-> 1, luminosity_distance |-> 0]>>),
     mpi_rank |-> <<>>,
     lc_model |-> [offset |-> 20, slope |-> 1]]

\* one complete run with the report and the plot
CompleteRun ==
    {[args |-> [DefaultArgs EXCEPT !.bestfit = TRUE, !.plot = TRUE], env |-> DefaultEnv]}

\* --- filters and error budgets (lines 613-647)
FilterTokens == {"g", "r", "i", " r"}

FilterInputs ==
    {[args |-> [DefaultArgs EXCEPT !.filters = f,
                                   !.photometry_augmentation_filters = a,
                                   !.error_budget = b,
                                   !.bestfit = TRUE],
      env  |-> [DefaultEnv EXCEPT !.event_file = d]] :
        f \in SeqsUpTo(FilterTokens, MaxFilters),
        a \in SeqsUpTo({"r", "i"}, 1),
        b \in NonEmptySeqs({1, 2}, MaxBudget + 1),
        d \in UNION {Datasets(names, {<<Point(1, Num(20), Num(1))>>}) :
                        names \in {<<"g">>, <<"r", "g">>, <<"g", "r", "i">>}}}

SpecFilters == InitFrom(FilterInputs \cup CompleteRun) /\ [][Next]_vars

\* --- detections (lines 590-611): magnitude real or NaN, uncertainty real or inf
DetectionPoints ==
    {Point(1, m, u) : m \in {Num(20), NaN}, u \in {Num(1), Inf}}

DetectionInputs ==
    {[args |-> [DefaultArgs EXCEPT !.remove_nondetections = r, !.trigger_time = t],
      env  |-> [DefaultEnv EXCEPT !.event_file = d]] :
        r \in BOOLEAN, t \in {<<>>, <<0>>},
        d \in UNION {Datasets(names, SeqsUpTo(DetectionPoints, MaxPoints)) :
                        names \in {<<>>, <<"g">>, <<"g", "r">>}}}

SpecDetect == InitFrom(DetectionInputs \cup CompleteRun) /\ [][Next]_vars

\* --- the sampler call (lines 680-716)
Samplers == {"pymultinest", "ultranest", "dynesty", "nestle"}

SamplerInputs ==
    {[args |-> [DefaultArgs EXCEPT !.sampler = s, !.reactive_sampling = r,
                                   !.skip_sampling = k, !.nlive = n,
                                   !.sampler_kwargs = w],
      env  |-> DefaultEnv] :
        s \in Samplers, r \in BOOLEAN, k \in BOOLEAN, n \in {1, 2048},
        w \in {[wellformed |-> TRUE, value |-> <<>>],
               [wellformed |-> TRUE, value |-> [key \in {"max_iter"} |-> 5]],
               [wellformed |-> FALSE, value |-> <<>>]}}

SpecSampler == InitFrom(SamplerInputs \cup CompleteRun) /\ [][Next]_vars

\* --- the posterior table (lines 771-786)
ColumnValues(c) ==
    IF c = "log_likelihood" THEN {1, 2}
    ELSE IF c = "luminosity_distance" THEN {0, 10}
    ELSE IF c = "timeshift" THEN {0, 1}
    ELSE {0, 2}

Rows(columns) == {r \in [columns -> {0, 1, 2, 10}] : \A c \in columns : r[c] \in ColumnValues(c)}

PosteriorTables ==
    UNION {{Table(columns, rows) : rows \in SeqsUpTo(Rows(columns), MaxRows)} :
              columns \in {BaseColumns \cup extra : extra \in SUBSET {"timeshift", "em_syserr"}}}

BestfitInputs ==
    {[args |-> [DefaultArgs EXCEPT !.bestfit = TRUE],
      env  |-> [DefaultEnv EXCEPT !.posterior = t]] : t \in PosteriorTables}

SpecBestfit == InitFrom(BestfitInputs \cup CompleteRun) /\ [][Next]_vars

\* --- the chi-square (lines 807-845): detections and non-detections, inside and
\* outside the window [tmin, tmax] = [0, 3] after the trigger time 0
Chi2Points ==
    {Point(1, Num(20), Num(1)), Point(2, Num(23), Num(2)),
     Point(1, Num(21), Inf), Point(5, Num(20), Num(1))}

\* filter g with up to MaxPoints points, alone or followed by a filter r with at
\* most one point
Chi2Datasets ==
    {<<[filt |-> "g", samples |-> sg]>> \o rest :
        sg \in SeqsUpTo(Chi2Points, MaxPoints),
        rest \in {<<>>} \cup {<<[filt |-> "r", samples |-> sr]>> :
                                 sr \in SeqsUpTo(Chi2Points, 1)}}

Chi2Tables ==
    {Table(BaseColumns \cup extra,
           <<[c \in BaseColumns \cup extra |->
                IF c = "luminosity_distance" THEN 0 ELSE IF c = "em_syserr" THEN 2 ELSE 1]>>) :
        extra \in {{}, {"timeshift"}, {"em_syserr"}}}

Chi2Inputs ==
    {[args |-> [DefaultArgs EXCEPT !.bestfit = TRUE, !.filters = f],
      env  |-> [DefaultEnv EXCEPT !.event_file = d, !.posterior = t]] :
        f \in {<<>>, <<"g">>},
        t \in Chi2Tables,
        d \in Chi2Datasets}

SpecChi2 == InitFrom(Chi2Inputs \cup CompleteRun) /\ [][Next]_vars

\* --- the whole run (lines 399-786): configurations and data that are refused,
\* and runs that reach the sampler, under MPI or not
RefusedData == <<[filt |-> "g", samples |-> <<Point(1, Num(20), Inf)>>]>>

StringOptions ==
    {[wellformed |-> TRUE, value |-> <<>>], [wellformed |-> FALSE, value |-> <<>>]}

PipelineInputs ==
    {[args |-> [DefaultArgs EXCEPT !.sampler = s, !.outdir_len = o, !.injection = j,
                                   !.sampler_kwargs = w, !.detection_limit = l,
                                   !.filters = fb[1], !.error_budget = fb[2],
                                   !.bestfit = b],
      env  |-> [DefaultEnv EXCEPT !.event_file = d, !.mpi_rank = m]] :
        s \in {"pymultinest", "dynesty"},
        o \in {MaxOutdirLen, MaxOutdirLen + 1},
        j \in {"none", "geocent_time", "geocent_time_x", "no_geocent_time"},
        w \in StringOptions,
        l \in {<<>>} \cup {<<x>> : x \in StringOptions},
        fb \in {<<<<>>, <<1>>>>, <<<<"g">>, <<1, 2>>>>},
        b \in BOOLEAN,
        d \in {DefaultEnv.event_file, RefusedData},
        m \in {<<>>, <<0>>, <<1>>}}

SpecPipeline == InitFrom(PipelineInputs \cup CompleteRun) /\ [][Next]_vars

\* --- the plot (lines 864-1001), with the trigger time at and after the epoch 0
PlotInputs ==
    {[args |-> [DefaultArgs EXCEPT !.plot = TRUE, !.bestfit = b,
                                   !.remove_nondetections = r, !.trigger_time = <<t>>],
      env  |-> [DefaultEnv EXCEPT !.event_file = d]] :
        b \in BOOLEAN, r \in BOOLEAN, t \in {0, 1}, d \in Chi2Datasets}

SpecPlot == InitFrom(PlotInputs \cup CompleteRun) /\ [][Next]_vars

\* --- the time grid (lines 421-431): dt > 0 and tmax >= tmin, linear or
\* log-spaced with a step count of 0 (none), 1, 2 or 3
ExactLogGrid(tmin, stop, num) ==
    /\ tmin >= 1
    /\ num >= 3 => stop % tmin = 0 /\ HasRoot(stop \div tmin, num - 1)

TimeInputs ==
    {[args |-> a, env |-> DefaultEnv] :
        a \in {[DefaultArgs EXCEPT !.tmin = t[1], !.tmax = t[2], !.dt = t[3],
                                   !.log_space_time = t[4], !.n_tstep = t[5]] :
                 t \in {x \in (0..2) \X (0..MaxTmax) \X (1..3) \X BOOLEAN \X (0..3) :
                          /\ x[2] >= x[1]
                          /\ ~x[4] => x[5] = 0
                          /\ x[4] => ExactLogGrid(x[1], x[2] + x[3],
                                        IF x[5] # 0 THEN x[5]
                                        ELSE int(x[2] - x[1], x[3]))}}}

SpecTime == InitFrom(TimeInputs \cup CompleteRun) /\ [][Next]_vars

\* --- the timeshift (lines 797-802, 819-823): best fits with a timeshift of 0, 1
\* or 2, the trigger at epoch 0 or 1 and the epochs of the points counted from it
ShiftedBy(d, t) ==
    [i \in 1..Len(d) |->
        [filt |-> d[i].filt,
         samples |-> [j \in 1..Len(d[i].samples) |->
                         [d[i].samples[j] EXCEPT !.jd = @ + t]]]]

TimeshiftTables ==
    {Table(BaseColumns \cup {"timeshift"},
           <<[c \in BaseColumns \cup {"timeshift"} |->
                IF c = "luminosity_distance" THEN dist
                ELSE IF c = "timeshift" THEN ts ELSE 1]>>) :
        ts \in {0, 1, 2}, dist \in {0, 10}}

TimeshiftInputs ==
    {[args |-> [DefaultArgs EXCEPT !.bestfit = TRUE, !.trigger_time = <<t>>],
      env  |-> [DefaultEnv EXCEPT !.event_file = ShiftedBy(d, t), !.posterior = tab]] :
        t \in {0, 1}, tab \in TimeshiftTables, d \in Chi2Datasets}

SpecTimeshift == InitFrom(TimeshiftInputs \cup CompleteRun) /\ [][Next]_vars

\* --- every input family together
Init ==
    InitFrom(FilterInputs \cup DetectionInputs \cup SamplerInputs \cup BestfitInputs
             \cup Chi2Inputs \cup PipelineInputs \cup PlotInputs \cup TimeInputs \cup TimeshiftInputs
             \cup CompleteRun)

Spec == Init /\ [][Next]_vars

\* ------------------------------------------------------------- properties
\* lines 613-647 have just completed without raising
Resolved == pc = "likelihood"

\* line 641 has raised
BudgetError ==
    pc = "raised" /\ error = "ValueError: error_budget must be the same length as filters"

Loaded == Range(Keys(data))

NoDuplicates(s) == \A i, j \in 1..Len(s) : s[i] = s[j] => i = j

\* C1: the analyzed filters are exactly the requested filters present in the
\* loaded dataset, each once, in the order of the requested list (with or without
\* augmentation filters); with no requested filters they are the loaded filters.
C1_AnalyzedAreRequestedLoaded ==
    Resolved =>
        IF args.filters # <<>>
        THEN /\ Range(filters_to_analyze) = Range(args.filters) \cap Loaded
             /\ NoDuplicates(filters_to_analyze)
             /\ \A i, j \in 1..Len(filters_to_analyze) :
                    i < j => \E a, b \in 1..Len(args.filters) :
                                /\ a < b
                                /\ args.filters[a] = filters_to_analyze[i]
                                /\ args.filters[b] = filters_to_analyze[j]
        ELSE filters_to_analyze = Keys(data)

\* the list the values of a budget list are paired with
FilterList == IF args.filters # <<>> THEN args.filters ELSE filters_to_analyze

\* a single value goes to every analyzed filter, and resolution does not fail
ScalarBroadcast ==
    /\ Resolved /\ Len(args.error_budget) = 1 =>
           \A f \in Range(filters_to_analyze) :
               f \in DOMAIN error_budget /\ error_budget[f] = args.error_budget[1]
    /\ BudgetError => Len(args.error_budget) # 1 /\ Len(args.error_budget) # Len(args.filters)

\* C2: a single value is assigned to every analyzed filter, and a list as long as
\* the filter list assigns its i-th value to the i-th filter, one filter after the
\* other (so a filter named more than once in the list ends with the value of
\* its last position).
C2_BudgetByPosition ==
    /\ ScalarBroadcast
    /\ Resolved /\ Len(args.error_budget) > 1
                /\ Len(args.error_budget) = Len(FilterList) =>
           \A i \in 1..Len(FilterList) :
               (\A j \in (i + 1)..Len(FilterList) : FilterList[j] # FilterList[i])
                   => error_budget[FilterList[i]] = args.error_budget[i]

\* the example of the specification: "1,2" with filters g,r gives {g: 1, r: 2}
C2_Witness ==
    /\ Resolved
    /\ args.filters = <<"g", "r">>
    /\ args.error_budget = <<1, 2>>
    /\ error_budget = [f \in {"g", "r"} |-> IF f = "g" THEN 1 ELSE 2]

\* C3: a budget list of more than one value whose length differs from the number
\* of analyzed filters makes analysis() fail: resolution does not complete.
C3_LengthMismatchRaises ==
    Resolved => ~(/\ Len(args.error_budget) > 1
                  /\ Len(args.error_budget) # Len(filters_to_analyze))

\* C4: when resolution succeeds the keys of the error budget are exactly the
\* analyzed filters.
C4_BudgetCoversAnalyzed ==
    Resolved => DOMAIN error_budget = Range(filters_to_analyze)

\* line 611 has raised
NoDetectionError ==
    pc = "raised" /\ error = "ValueError: Need at least one detection to do fitting."

\* some filter of d holds a point with a finite uncertainty
SomeDetection(d) ==
    \E i \in 1..Len(d) : \E j \in 1..Len(d[i].samples) : FiniteUnc(d[i].samples[j])

\* some filter of d holds a point whose magnitude is not NaN
SomeMagnitude(d) ==
    \E i \in 1..Len(d) : \E j \in 1..Len(d[i].samples) : NotNanMag(d[i].samples[j])

\* the positions before the validation of lines 598-611 has run
BeforeCheck == pc \in {"start", "sample_times", "filters", "load", "remove", "check"}

\* C5: after loading and the optional removal of non-detections the run goes on
\* only if some filter holds a point with finite uncertainty and some filter a
\* point whose magnitude is not NaN, and fails with the data error otherwise; a
\* dataset with points that are all non-detections never gets past validation.
C5_DetectionsValidated ==
    /\ pc = "resolve" => SomeDetection(data) /\ SomeMagnitude(data)
    /\ NoDetectionError => ~(SomeDetection(data) /\ SomeMagnitude(data))
    /\ ~BeforeCheck /\ ~SomeDetection(env.event_file) => pc = "raised"

\* two filters, every point a non-detection, refused by the validation
C5_Witness ==
    /\ NoDetectionError
    /\ Len(data) = 2
    /\ \A i \in 1..Len(data) : data[i].samples # <<>>
    /\ ~SomeDetection(data)
    /\ SomeMagnitude(data)

\* lines 779-783 have just completed
BestfitFetched == pc = "lightcurve"

\* C6: the best-fit row is the first row of the posterior table whose
\* log_likelihood is maximal, and the best-fit parameters are that row's values,
\* column by column.
C6_BestfitIsFirstMaximum ==
    BestfitFetched =>
        LET table == posterior_file[1]
            k     == bestfit_idx[1] + 1
        IN  /\ k \in 1..Len(table.rows)
            /\ \A i \in 1..Len(table.rows) :
                   table.rows[i]["log_likelihood"] <= table.rows[k]["log_likelihood"]
            /\ \A i \in 1..(k - 1) :
                   table.rows[i]["log_likelihood"] < table.rows[k]["log_likelihood"]
            /\ DOMAIN bestfit_params = table.columns
            /\ \A c \in table.columns : bestfit_params[c] = table.rows[k][c]

\* two different rows tie for the maximum and the first one is taken
C6_Witness ==
    /\ BestfitFetched
    /\ Len(posterior_file[1].rows) = 2
    /\ posterior_file[1].rows[1]["log_likelihood"] = posterior_file[1].rows[2]["log_likelihood"]
    /\ posterior_file[1].rows[1]["luminosity_distance"] # posterior_file[1].rows[2]["luminosity_distance"]
    /\ bestfit_idx = <<0>>
    /\ bestfit_params["luminosity_distance"] = posterior_file[1].rows[1]["luminosity_distance"]

\* lines 807-845 have just completed without raising
Chi2Computed == pc = "write" /\ chi2_per_dof # <<>>

\* the points of filter f the chi-square is about: those of the analysis window
\* (epochs counted from the trigger time) that have a finite uncertainty
WindowDetections(f) ==
    SelectSeq(Get(data, f),
              LAMBDA p : /\ isfinite(p.mag_unc)
                         /\ args.tmin <= p.jd - trigger_time[1]
                         /\ p.jd - trigger_time[1] <= args.tmax)

\* the systematic error used for filter f
EffectiveError(f) ==
    IF "em_syserr" \in DOMAIN bestfit_params THEN bestfit_params["em_syserr"]
    ELSE error_budget[f]

\* the best-fit magnitude of filter f at the time t after the trigger
BestfitMagAt(f, t) ==
    LET shift == IF "timeshift" \in DOMAIN bestfit_params
                 THEN bestfit_params["timeshift"] ELSE 0
    IN  interp1d(mag.bestfit_sample_times, mag.curves[f], t + shift)[2]

\* the residual term of the point p of filter f
ResidualTerm(f, p) ==
    NpDiv(Square(Sub(p.mag, BestfitMagAt(f, p.jd - trigger_time[1]))),
          Add(Square(p.mag_unc), Square(Num(EffectiveError(f)))))

RECURSIVE SumTerms(_, _)
SumTerms(f, pts) ==
    IF pts = <<>> THEN Num(0) ELSE Add(ResidualTerm(f, Head(pts)), SumTerms(f, Tail(pts)))

\* the sum of the values of the function F over its (finite) domain
SumOver(F) ==
    LET s == CHOOSE o \in Orderings(DOMAIN F) : TRUE
    IN  Sum([i \in 1..Len(s) |-> F[s[i]]])

Analyzed == Range(filters_to_analyze)

DetectionCount(f) == Num(Len(WindowDetections(f)))

DetectionChi2(f) == SumTerms(f, WindowDetections(f))

\* C7: only points with a finite uncertainty are summed and counted: the
\* degrees of freedom are the number of detections in the window, every
\* chi-square is the sum of the residual terms of those detections alone, and a
\* filter without detections has no per-filter chi-square.
C7_OnlyDetectionsContribute ==
    Chi2Computed =>
        /\ Num(dof) = SumOver([f \in Analyzed |-> DetectionCount(f)])
        /\ chi2 = SumOver([f \in Analyzed |-> DetectionChi2(f)])
        /\ DOMAIN chi2_per_dof_dict = {f \in Analyzed : WindowDetections(f) # <<>>}
        /\ \A f \in DOMAIN chi2_per_dof_dict :
               chi2_per_dof_dict[f] = NpDiv(DetectionChi2(f), DetectionCount(f))

\* a filter with a detection and a non-detection in the window: one term, one
\* degree of freedom
C7_Witness ==
    /\ Chi2Computed
    /\ filters_to_analyze = <<"g">>
    /\ Get(data, "g") = <<Point(1, Num(21), Inf), Point(2, Num(23), Num(2))>>
    /\ dof = 1
    /\ chi2 # Num(0)

\* the per-filter chi-square recovered from the stored per-filter ratio
PerFilterChi2(f) == Mul(chi2_per_dof_dict[f], DetectionCount(f))

\* C8: chi2_per_dof is the sum of the per-filter chi-squares over the sum of the
\* per-filter detection counts, and the loop gives the same value whatever the
\* order in which the analyzed filters are processed.
C8_Chi2PerDofOrderFree ==
    Chi2Computed =>
        /\ chi2_per_dof[1] = NpDiv(SumOver([f \in DOMAIN chi2_per_dof_dict |-> PerFilterChi2(f)]),
                                   SumOver([f \in DOMAIN chi2_per_dof_dict |-> DetectionCount(f)]))
        /\ \A order \in Orderings(Analyzed) :
               LET acc == Chi2Loop(order,
                                   dataProcess(data, filters_to_analyze, trigger_time),
                                   [chi2 |-> Num(0), dof |-> 0, dict |-> <<>>, error |-> ""])
               IN  /\ acc.error = ""
                   /\ NpDiv(acc.chi2, Num(acc.dof)) = chi2_per_dof[1]

\* two filters with different per-filter chi-squares both contribute
C8_Witness ==
    /\ Chi2Computed
    /\ DOMAIN chi2_per_dof_dict = {"g", "r"}
    /\ chi2_per_dof_dict["g"] # chi2_per_dof_dict["r"]
    /\ dof >= 3

\* no analyzed filter has a detection inside the analysis window
NoWindowDetections == \A f \in Analyzed : WindowDetections(f) = <<>>

\* C9: when no analyzed filter has a detection inside the window the chi-square
\* step raises and no chi2_per_dof is produced; it raises for a zero total only.
C9_ZeroDofRaises ==
    /\ pc = "write" /\ chi2 # <<>> => ~NoWindowDetections /\ dof > 0
    /\ error = "ZeroDivisionError" =>
           pc = "raised" /\ chi2_per_dof = <<>> /\ dof = 0 /\ NoWindowDetections

\* validation passed on the detection of a filter that is not analyzed, and the
\* analyzed filter has only a non-detection
C9_Witness ==
    /\ pc = "raised" /\ error = "ZeroDivisionError"
    /\ filters_to_analyze = <<"g">>
    /\ ~SomeDetection(<<[filt |-> "g", samples |-> Get(data, "g")]>>)
    /\ HasKey(data, "r")
    /\ chi2_per_dof = <<>>

\* C10: reactive sampling with a sampler other than ultranest warns and calls the
\* sampler with args.nlive; with ultranest the call has no fixed live-point
\* count; nlive is always defined when the sampler is called.
C10_ReactiveFallback ==
    /\ pc = "run" => nlive.bound
    /\ error # "UnboundLocalError: nlive"
    /\ run_sampler_call # <<>> /\ args.reactive_sampling =>
           IF args.sampler = "ultranest"
           THEN run_sampler_call[1].nlive = <<>>
           ELSE /\ "Reactive sampling is only available in ultranest" \in printed
                /\ run_sampler_call[1].nlive = <<args.nlive>>

\* the process was ended by exit()
Exited == pc = "exited"

\* C11: a fatal configuration or data error ends the process with a non-zero
\* status after a diagnostic was printed, the over-long pymultinest output
\* directory and the injection row without a geocentric time in particular.
C11_FatalErrorsExitNonZero ==
    Exited => printed # {} /\ exit_status # <<>> /\ exit_status[1] # 0

\* the exceptions of the configuration and data checks: lines 611, 641, 663, 680
ConfigErrors ==
    {"ValueError: Need at least one detection to do fitting.",
     "ValueError: error_budget must be the same length as filters",
     "ValueError: malformed node or string"}

\* a configuration or data error has occurred
ConfigError == Exited \/ error \in ConfigErrors

\* C12: when a configuration or data error occurs (over-long pymultinest outdir,
\* injection row without geocentric time, no usable detection, error-budget
\* length mismatch, unparsable sampler kwargs or detection limit) the sampler
\* has not been invoked, and the run has ended, so it is not invoked afterwards.
C12_ErrorsBeforeSampler ==
    ConfigError => run_sampler_call = <<>> /\ pc \in {"exited", "raised"}

\* the last of the checks, the sampler kwargs, refuses the configuration
C12_Witness ==
    /\ pc = "raised" /\ error = "ValueError: malformed node or string"
    /\ ~args.sampler_kwargs.wellformed
    /\ filters_to_analyze # <<>>
    /\ run_sampler_call = <<>>

\* the process runs under MPI with a rank other than 0
NonZeroRank == env.mpi_rank # <<>> /\ env.mpi_rank[1] # 0

\* C13: the best-fit step reads the posterior table only after the sampler has
\* returned and the table has been persisted in the same run (the read never
\* finds the file missing), and a process of non-zero MPI rank returns early:
\* it neither persists nor reads the table.
C13_BestfitAfterPersist ==
    /\ bestfit_idx # <<>> =>
           /\ run_sampler_call # <<>>
           /\ posterior_file = <<env.posterior>>
    /\ error # "FileNotFoundError"
    /\ NonZeroRank =>
           /\ posterior_file = <<>> /\ bestfit_idx = <<>> /\ bestfit_params = <<>>
           /\ pc \notin {"save", "bestfit", "lightcurve", "chi2", "write", "plot", "done"}

\* the process of rank 0 has persisted the table and read the best fit from it
C13_Witness ==
    /\ env.mpi_rank = <<0>>
    /\ run_sampler_call # <<>>
    /\ posterior_file = <<env.posterior>>
    /\ bestfit_idx = <<0>>
    /\ bestfit_params = env.posterior.rows[1]

\* the steps after the load and the removal of non-detections
AfterLoad ==
    pc \in {"check", "resolve", "likelihood", "reactive", "skip", "run", "mpi", "save",
            "bestfit", "lightcurve", "chi2", "write", "plot"}

\* C14: once loaded, and after the optional removal of non-detections, no step
\* of analysis() changes the dataset: every epoch, magnitude and uncertainty of
\* every filter stays as it is.
C14_DataImmutableOnceLoaded == [][AfterLoad => data' = data]_vars

\* lines 421-431 have just run
GridBuilt == pc = "filters"

StrictlyIncreasing(a) == \A i \in 1..(Len(a) - 1) : a[i] < a[i + 1]

\* ceil(n / d) for n >= 0 and d > 0
Ceil(n, d) == (n + d - 1) \div d

\* C15: for every valid time configuration (dt > 0, tmax >= tmin, any supplied
\* step count) the grid of sample times is strictly increasing, has at least 2
\* points and starts at tmin; log-spaced with no step count it has
\* ceil((tmax - tmin) / dt) points.
C15_SampleTimesGrid ==
    GridBuilt =>
        /\ StrictlyIncreasing(sample_times)
        /\ Len(sample_times) >= 2
        /\ sample_times[1] = args.tmin
        /\ args.log_space_time /\ args.n_tstep = 0 =>
               Len(sample_times) = Ceil(args.tmax - args.tmin, args.dt)

\* lines 590-596 have just run
RemovalDone == pc = "check"

\* the points of samples with a finite uncertainty, in their order
Detections(samples) == SelectSeq(samples, FiniteUnc)

\* C16: with non-detection removal configured, after the step every remaining
\* filter is non-empty and holds exactly its points of finite uncertainty in
\* their original order, and a loaded filter is gone exactly when it had no
\* such point; without it the dataset is the loaded one.
C16_NondetectionsRemoved ==
    RemovalDone =>
        IF args.remove_nondetections
        THEN /\ \A i \in 1..Len(data) :
                    /\ data[i].samples # <<>>
                    /\ \A j \in 1..Len(data[i].samples) : FiniteUnc(data[i].samples[j])
                    /\ HasKey(env.event_file, data[i].filt)
                    /\ data[i].samples = Detections(Get(env.event_file, data[i].filt))
             /\ \A k \in 1..Len(env.event_file) :
                    HasKey(data, env.event_file[k].filt)
                        <=> Detections(env.event_file[k].samples) # <<>>
             /\ NoDuplicates(Keys(data))
        ELSE data = env.event_file

\* filter g loses its non-detection and keeps its detection, filter r held only
\* a non-detection and is removed
C16_Witness ==
    /\ RemovalDone /\ args.remove_nondetections
    /\ env.event_file =
         <<[filt |-> "g", samples |-> <<Point(1, Num(20), Inf), Point(1, Num(20), Num(1))>>],
           [filt |-> "r", samples |-> <<Point(1, Num(20), Inf)>>]>>
    /\ data = <<[filt |-> "g", samples |-> <<Point(1, Num(20), Num(1))>>]>>

\* the sampler has been invoked
SamplerInvoked == run_sampler_call # <<>>

\* the iteration-limit keyword of each sampler
IterationKeys == {"max_iter", "niter", "maxiter"}

IterationKey(sampler) ==
    IF sampler = "pymultinest" THEN "max_iter"
    ELSE IF sampler = "ultranest" THEN "niter"
    ELSE "maxiter"

\* the kwargs k agree with the parsed --sampler-kwargs on every key but `key`
SameBut(k, key) ==
    /\ DOMAIN k \ {key} = DOMAIN args.sampler_kwargs.value \ {key}
    /\ \A x \in DOMAIN k \ {key} : k[x] = args.sampler_kwargs.value[x]

\* C17: with skip-sampling the sampler is invoked with an iteration limit of 1
\* whatever the sampler (max_iter for pymultinest, niter for ultranest, maxiter
\* for dynesty), a value given for that key in the sampler kwargs being
\* overridden; without skip-sampling the kwargs are passed through unchanged.
C17_SkipSamplingLimitsIterations ==
    SamplerInvoked =>
        LET k == run_sampler_call[1].kwargs
        IN  IF args.skip_sampling
            THEN /\ \E key \in IterationKeys : key \in DOMAIN k /\ k[key] = 1
                 /\ args.sampler \in {"pymultinest", "ultranest", "dynesty"} =>
                        /\ IterationKey(args.sampler) \in DOMAIN k
                        /\ k[IterationKey(args.sampler)] = 1
                        /\ SameBut(k, IterationKey(args.sampler))
            ELSE k = args.sampler_kwargs.value

\* the best fit has a timeshift
HasTimeshift == "timeshift" \in DOMAIN bestfit_params

\* the best-fit model's apparent magnitude at the time t after the trigger
ModelAt(t) ==
    IF bestfit_params["luminosity_distance"] > 0
    THEN Add(ModelMag(t), DistanceModulus(bestfit_params["luminosity_distance"]))
    ELSE ModelMag(t)

\* the chi-square of filter f with every detection of the window compared to
\* the model at the detection's own time after the trigger
UnshiftedChi2(f) ==
    LET pts == WindowDetections(f)
    IN  Sum([j \in 1..Len(pts) |->
                NpDiv(Square(Sub(pts[j].mag, ModelAt(pts[j].jd - trigger_time[1]))),
                      Add(Square(pts[j].mag_unc), Square(Num(EffectiveError(f)))))])

\* C18: with a timeshift in the best fit the model's time axis is the grid moved
\* by the timeshift and the epochs of the detections are moved by as much on a
\* copy (the dataset keeps its epochs), so every detection is compared to the
\* model at its own time after the trigger and the chi-square is the one
\* computed without any timeshift.
C18_TimeshiftCancels ==
    Chi2Computed /\ HasTimeshift =>
        /\ mag.bestfit_sample_times =
               [k \in 1..Len(mag.bestfit_sample_times) |->
                   arange(args.tmin, args.tmax + args.dt, args.dt)[k]
                       + bestfit_params["timeshift"]]
        /\ data = env.event_file
        /\ chi2 = SumOver([f \in Analyzed |-> UnshiftedChi2(f)])
        /\ \A f \in DOMAIN chi2_per_dof_dict :
               chi2_per_dof_dict[f] = NpDiv(UnshiftedChi2(f), DetectionCount(f))

\* a timeshift of 2 and a detection one time unit after the trigger at epoch 1,
\* three magnitudes above the model
C18_Witness ==
    /\ Chi2Computed /\ HasTimeshift
    /\ bestfit_params["timeshift"] = 2
    /\ trigger_time = Num(1)
    /\ Get(data, "g") = <<Point(3, Num(23), Num(2))>>
    /\ chi2 # Num(0)

====
